---- MODULE Spec2Model ----
(***************************************************************************)
(* A model of scraper.py: the catalog walk of main(), the link collector,  *)
(* the stock and size extractors of parse_product_page, the row            *)
(* flattening and the batched sheet writer.                                *)
(*                                                                         *)
(* Text is modelled at two grains.  A string whose characters matter (a    *)
(* size candidate, a URL) is a sequence of one-symbol strings; the visible *)
(* page text scanned for stock phrases is a sequence of words.  The module *)
(* is plain ASCII, so the Cyrillic literals of the source are written in   *)
(* Latin transliteration: "net v nalichii" and "v nalichii".               *)
(***************************************************************************)
EXTENDS Integers, Sequences, FiniteSets, TLC

VARIABLES
    pc,             \* where main() stands
    site,           \* the web site being crawled (the environment)
    batch_size,     \* main: batch_size, read from SHEETS_BATCH_SIZE
    cat,            \* index into catalog_urls of the `for catalog_url` loop
    page,           \* the `for page in range(...)` loop variable
    product_links,  \* main: product_links of the current page
    idx,            \* the enumerate() position i in product_links
    all_rows_dict,  \* main: all_rows_dict
    buffer_rows,    \* main: buffer_rows
    total_written,  \* main: total_written
    sheet_batches,  \* the batches ws.append_rows accepted, in order
    csv,            \* output.csv: whether written, and its rows
    events,         \* log of fetches, product attempts and sleeps, in order
    faults,         \* failures injected so far
    call,           \* function under test (pure-function specification)
    ret             \* its result

vars == <<pc, site, batch_size, cat, page, product_links, idx, all_rows_dict,
          buffer_rows, total_written, sheet_batches, csv, events, faults,
          call, ret>>

mainVars == <<pc, site, batch_size, cat, page, product_links, idx,
              all_rows_dict, buffer_rows, total_written, sheet_batches, csv,
              events, faults>>

(***************************************************************************)
(* Program constants                                                       *)
(***************************************************************************)
MAX_PAGES_PER_CATALOG == 200

\* The sleeps, in milliseconds (0.6 s and 0.8 s in the source).
SLEEP_BETWEEN_REQUESTS_SEC == 600

SLEEP_BETWEEN_PAGES_SEC == 800

\* int(os.getenv("SHEETS_BATCH_SIZE", "300"))
DEFAULT_BATCH_SIZE == 300

HEADER == <<"url", "name", "category", "color", "size", "stock">>

(***************************************************************************)
(* Bounds of the model                                                     *)
(***************************************************************************)
\* Words of visible page text handed to the stock test.
MaxWords == 3

\* <option> elements and a/button/span/div elements of a product page.
MaxOptions == 1

MaxElements == 2

\* Symbols of a catalog root URL, and the largest page index, given to
\* catalog_page_url on its own.
MaxRootLen == 3

MaxPageArg == 12

\* Listing pages a finite site serves before it runs out of products.
MaxSitePages == 2

\* Failures (fetch errors, sheet append errors) injected in one run.
MaxFaults == 2

(***************************************************************************)
(* Sequence helpers                                                        *)
(***************************************************************************)
Range(s) == {s[i] : i \in DOMAIN s}

SeqsUpTo(S, n) == UNION {[1..k -> S] : k \in 0..n}

Last(s) == s[Len(s)]

RECURSIVE Concat(_)
Concat(ss) == IF ss = <<>> THEN <<>> ELSE Head(ss) \o Concat(Tail(ss))

\* `needle in hay` for sequences: a contiguous occurrence.
Contains(hay, needle) ==
    \E i \in 1..(Len(hay) - Len(needle) + 1) :
        SubSeq(hay, i, i + Len(needle) - 1) = needle

\* The seen/uniq loop: first occurrences, in order.
RECURSIVE UniqFrom(_, _)
UniqFrom(s, seen) ==
    IF s = <<>> THEN <<>>
    ELSE IF Head(s) \in seen THEN UniqFrom(Tail(s), seen)
    ELSE <<Head(s)>> \o UniqFrom(Tail(s), seen \cup {Head(s)})

(***************************************************************************)
(* Character strings                                                       *)
(***************************************************************************)
Lowers == <<"a", "b", "c", "d", "e", "f", "g", "h", "i", "j", "k", "l", "m",
            "n", "o", "p", "q", "r", "s", "t", "u", "v", "w", "x", "y", "z">>

Uppers == <<"A", "B", "C", "D", "E", "F", "G", "H", "I", "J", "K", "L", "M",
            "N", "O", "P", "Q", "R", "S", "T", "U", "V", "W", "X", "Y", "Z">>

Digits == {"0", "1", "2", "3", "4", "5", "6", "7", "8", "9"}

\* str.upper(), one character and a whole string.
UpperChar(c) ==
    IF \E i \in DOMAIN Lowers : Lowers[i] = c
    THEN Uppers[CHOOSE i \in DOMAIN Lowers : Lowers[i] = c]
    ELSE c

UpperStr(s) == [i \in DOMAIN s |-> UpperChar(s[i])]

\* What the regex class \s matches.
IsSpace(c) == c \in {" ", "\t", "\n"}

RECURSIVE DropSpaces(_)
DropSpaces(s) ==
    IF s # <<>> /\ IsSpace(Head(s)) THEN DropSpaces(Tail(s)) ELSE s

\* re.sub(r"\s+", " ", s)
RECURSIVE CollapseSpaces(_)
CollapseSpaces(s) ==
    IF s = <<>> THEN <<>>
    ELSE IF IsSpace(Head(s)) THEN <<" ">> \o CollapseSpaces(DropSpaces(s))
    ELSE <<Head(s)>> \o CollapseSpaces(Tail(s))

\* str.strip()
RECURSIVE DropTrailingSpaces(_)
DropTrailingSpaces(s) ==
    IF s # <<>> /\ IsSpace(s[Len(s)])
    THEN DropTrailingSpaces(SubSeq(s, 1, Len(s) - 1))
    ELSE s

Strip(s) == DropTrailingSpaces(DropSpaces(s))

clean_text(s) == Strip(CollapseSpaces(s))

\* str.replace("  ", " "): non-overlapping occurrences, left to right.
RECURSIVE ReplaceDoubleSpace(_)
ReplaceDoubleSpace(s) ==
    IF s = <<>> THEN <<>>
    ELSE IF Len(s) >= 2 /\ s[1] = " " /\ s[2] = " "
    THEN <<" ">> \o ReplaceDoubleSpace(SubSeq(s, 3, Len(s)))
    ELSE <<Head(s)>> \o ReplaceDoubleSpace(Tail(s))

(***************************************************************************)
(* SIZE_RE, anchored and case-insensitive                                  *)
(***************************************************************************)
SizeLiterals ==
    { <<"X", "S">>, <<"S">>, <<"M">>, <<"L">>, <<"X", "L">>,
      <<"X", "X", "L">>, <<"X", "X", "X", "L">>, <<"X", "X", "X", "S">>,
      <<"O", "N", "E", " ", "S", "I", "Z", "E">>, <<"O", "S">>,
      <<"O", "/", "S">> }

\* \d+
IsDigits(s) == s # <<>> /\ \A i \in DOMAIN s : s[i] \in Digits

\* \d+([.,]\d+)?
IsNumber(s) ==
    \/ IsDigits(s)
    \/ \E k \in 2..(Len(s) - 1) :
          /\ s[k] \in {".", ","}
          /\ IsDigits(SubSeq(s, 1, k - 1))
          /\ IsDigits(SubSeq(s, k + 1, Len(s)))

\* US\s?\d+([.,]\d+)? | EU\s?\d+([.,]\d+)?
IsRegionSize(s) ==
    /\ Len(s) >= 3
    /\ UpperStr(SubSeq(s, 1, 2)) \in {<<"U", "S">>, <<"E", "U">>}
    /\ \/ IsNumber(SubSeq(s, 3, Len(s)))
       \/ IsSpace(s[3]) /\ IsNumber(SubSeq(s, 4, Len(s)))

SIZE_RE(t) == UpperStr(t) \in SizeLiterals \/ IsRegionSize(t) \/ IsNumber(t)

(***************************************************************************)
(* catalog_page_url                                                        *)
(***************************************************************************)
DigitChars == <<"0", "1", "2", "3", "4", "5", "6", "7", "8", "9">>

\* str(page) of the f-string: the decimal digits of a positive integer.
RECURSIVE Decimal(_)
Decimal(n) ==
    IF n < 10 THEN <<DigitChars[n + 1]>>
    ELSE Decimal(n \div 10) \o <<DigitChars[(n % 10) + 1]>>

catalog_page_url_always_question(catalog_url, page_no) ==
    IF page_no = 1 THEN catalog_url
    ELSE catalog_url \o <<"?">> \o <<"p", "a", "g", "e", "=">> \o Decimal(page_no)

catalog_page_url(catalog_url, page_no) ==
    IF page_no = 1 THEN catalog_url
    ELSE LET sep == IF \E i \in DOMAIN catalog_url : catalog_url[i] = "?"
                    THEN "&" ELSE "?"
         IN  catalog_url \o <<sep>> \o <<"p", "a", "g", "e", "=">>
                 \o Decimal(page_no)

(***************************************************************************)
(* parse_stock_from_text                                                   *)
(***************************************************************************)
\* The phrases, as word sequences ("net v nalichii" contains "v nalichii").
PhraseNetVNalichii == <<"net", "v", "nalichii">>

PhraseSoldOut == <<"sold", "out">>

PhraseVNalichii == <<"v", "nalichii">>

PhraseInStock == <<"in", "stock">>

\* The three return values of the source: the out-of-stock label, the
\* in-stock label and the empty string.
StockOut == "net v nalichii"

StockIn == "v nalichii"

StockNone == ""

parse_stock_in_stock_first(page_text_lower) ==
    IF Contains(page_text_lower, PhraseVNalichii)
       \/ Contains(page_text_lower, PhraseInStock)
    THEN StockIn
    ELSE IF Contains(page_text_lower, PhraseNetVNalichii)
            \/ Contains(page_text_lower, PhraseSoldOut)
    THEN StockOut
    ELSE StockNone

parse_stock_from_text(page_text_lower) ==
    IF Contains(page_text_lower, PhraseNetVNalichii)
       \/ Contains(page_text_lower, PhraseSoldOut)
    THEN StockOut
    ELSE IF Contains(page_text_lower, PhraseVNalichii)
            \/ Contains(page_text_lower, PhraseInStock)
    THEN StockIn
    ELSE StockNone

\* str.lower() on the words of the page text.
LowerWord(w) ==
    CASE w = "Sold" -> "sold"
      [] w = "OUT" -> "out"
      [] w = "Net" -> "net"
      [] OTHER -> w

LowerText(text) == [i \in DOMAIN text |-> LowerWord(text[i])]

(***************************************************************************)
(* parse_product_page.  A product page (doc) is what the extractors read:  *)
(* h1 (the heading text), crumbs (the breadcrumb link texts), color (what  *)
(* the three colour heuristics settle on), text (the visible page text),   *)
(* options (<option> texts) and elements (a/button/span/div texts).        *)
(***************************************************************************)
RECURSIVE JoinCrumbs(_)
JoinCrumbs(txts) ==
    IF Len(txts) = 1 THEN txts[1]
    ELSE txts[1] \o " / " \o JoinCrumbs(Tail(txts))

get_breadcrumb_category(crumbs) ==
    LET txts == SelectSeq(crumbs, LAMBDA t : t # "")
    IN  IF Len(txts) >= 2
        THEN JoinCrumbs(SubSeq(txts, IF Len(txts) > 4 THEN Len(txts) - 3 ELSE 1,
                               Len(txts)))
        ELSE ""

\* t.upper().replace("  ", " ")
NormalizeSize(t) == ReplaceDoubleSpace(UpperStr(t))

\* for opt in soup.select("select option")
OptionSizes(doc) ==
    LET ts == [i \in DOMAIN doc.options |-> clean_text(doc.options[i])]
        ok == SelectSeq(ts, SIZE_RE)
    IN  [i \in DOMAIN ok |-> NormalizeSize(ok[i])]

\* for el in soup.select("a, button, span, div")
ElementSizes(doc) ==
    LET ts == [i \in DOMAIN doc.elements |-> clean_text(doc.elements[i])]
        ok == SelectSeq(ts, LAMBDA t : t # <<>> /\ SIZE_RE(t) /\ Len(t) <= 10)
    IN  [i \in DOMAIN ok |-> NormalizeSize(ok[i])]

\* sizes = list(dict.fromkeys(sizes))
DictFromKeysKeepAll(sizes) == sizes

DictFromKeys(sizes) == UniqFrom(sizes, {})

parse_product_page(product_url, doc) ==
    [ url      |-> product_url,
      name     |-> doc.h1,
      category |-> get_breadcrumb_category(doc.crumbs),
      color    |-> doc.color,
      sizes    |-> DictFromKeys(OptionSizes(doc) \o ElementSizes(doc)),
      stock    |-> parse_stock_from_text(LowerText(doc.text)) ]

(***************************************************************************)
(* The flattening step of main: the rows one product record adds.         *)
(***************************************************************************)
RowOf(prod, size) ==
    [ url      |-> prod.url,
      name     |-> prod.name,
      category |-> prod.category,
      color    |-> prod.color,
      size     |-> size,
      stock    |-> prod.stock ]

\* The empty size field is the empty string, <<>>.
FlattenRows(prod) ==
    IF prod.sizes # <<>>
    THEN [i \in DOMAIN prod.sizes |-> RowOf(prod, prod.sizes[i])]
    ELSE <<RowOf(prod, <<>>)>>

\* [row[k] for k in HEADER]
RowList(row) == [k \in DOMAIN HEADER |-> row[HEADER[k]]]

RowLists(rows) == [i \in DOMAIN rows |-> RowList(rows[i])]

(***************************************************************************)
(* The crawled site.  Every catalog root is on SiteOrigin and every href   *)
(* of a listing page is an absolute path, written as its path segments     *)
(* (<<>> is the empty href), so urljoin resolves it against the origin.    *)
(***************************************************************************)
SiteOrigin == "https://x.com"

RootA == <<"h", "t", "t", "p", "s", ":", "/", "/", "x", ".", "c", "o", "m",
           "/", "c", "a", "t">>

RootB == RootA \o <<"?", "x", "=", "1">>

\* load_catalog_urls(): the non-empty list read from catalog.txt.
catalog_urls == <<RootA, RootB>>

HrefP1 == <<"product", "1">>

HrefP2 == <<"product", "2">>

HrefAbout == <<"about">>

\* Listing pages: two products (one linked twice), one product, none.
ListingA == <<HrefP1, HrefAbout, HrefP2, <<>>, HrefP1>>

ListingB == <<HrefP2>>

ListingE == <<HrefAbout>>

ListingFixtures == {ListingA, ListingB, ListingE}

\* A finite site serves its pages and then pages without anchors; an
\* endless site answers every page index past its last with its last page.
Sites ==
    {[pages |-> ps, endless |-> FALSE] :
        ps \in SeqsUpTo(ListingFixtures, MaxSitePages)}
    \cup {[pages |-> <<ListingB>>, endless |-> TRUE]}

Served(s, page_no) ==
    IF page_no <= Len(s.pages) THEN s.pages[page_no]
    ELSE IF s.endless THEN s.pages[Len(s.pages)]
    ELSE <<>>

\* "/product/" in a URL or href: a path segment "product" with a slash
\* on both sides.
HasProductMarker(segments) ==
    \E i \in 1..(Len(segments) - 1) : segments[i] = "product"

urljoin(base_url, href) == <<SiteOrigin>> \o href

\* The seen/uniq loop (source lines 89-96).
UniqLinks(urls) == UniqFrom(urls, {})

extract_product_links_from_catalog(anchors, base_url) ==
    LET selected == SelectSeq(anchors, HasProductMarker)
        withHref == SelectSeq(selected, LAMBDA h : h # <<>>)
        fulls    == [i \in DOMAIN withHref |-> urljoin(base_url, withHref[i])]
    IN  UniqLinks(SelectSeq(fulls, HasProductMarker))

\* The product pages of the site.
DocP1 ==
    [ h1 |-> "Jacket", crumbs |-> <<"Home", "", "Men", "Outerwear">>,
      color |-> "Black", text |-> <<"Jacket", "v", "nalichii">>,
      options |-> << <<"x", "l">> >>,
      elements |-> << <<"X", "L">>, <<" ", "M", " ">> >> ]

DocP2 ==
    [ h1 |-> "Cap", crumbs |-> <<"Home">>,
      color |-> "", text |-> <<"Cap", "Net", "v", "nalichii">>,
      options |-> <<>>, elements |-> << <<"S", "i", "z", "e", ":", " ", "M">> >> ]

ProductDoc(product_url) ==
    IF product_url = urljoin(RootA, HrefP1) THEN DocP1 ELSE DocP2

\* parse_product_page(product_url) on this site: fetch(product_url) returns
\* the page of the URL, which the extractors then read.  The site is static,
\* so the record depends on the URL alone.
SiteProductUrls == {urljoin(RootA, HrefP1), urljoin(RootA, HrefP2)}

SiteProducts ==
    [u \in SiteProductUrls |-> parse_product_page(u, ProductDoc(u))]

\* int(os.getenv("SHEETS_BATCH_SIZE", "300"))
BatchSizes == {1, 2, DEFAULT_BATCH_SIZE}

(***************************************************************************)
(* main(): the state after sheet_reset, at the head of the catalog loop.   *)
(***************************************************************************)
NoCall == [fn |-> "none"]

NoRet == [stage |-> "none"]

Init ==
    /\ pc = "fetch_page"
    /\ site \in Sites
    /\ batch_size \in BatchSizes
    /\ cat = 1
    /\ page = 1
    /\ product_links = <<>>
    /\ idx = 0
    /\ all_rows_dict = <<>>
    /\ buffer_rows = <<>>
    /\ total_written = 0
    /\ sheet_batches = <<>>
    /\ csv = [written |-> FALSE, rows |-> <<>>]
    /\ events = <<>>
    /\ faults = 0
    /\ call = NoCall
    /\ ret = NoRet

\* A fetch or a sheet append may fail, within the bound; the endless site
\* is walked without failures.
CanFault == ~site.endless /\ faults < MaxFaults

LastPageOffByOne == MAX_PAGES_PER_CATALOG + 1

\* The last value of range(1, MAX_PAGES_PER_CATALOG + 1).
LastPage == MAX_PAGES_PER_CATALOG

page_url == catalog_page_url(catalog_urls[cat], page)

\* Log entries.  A failed page fetch also records the rows produced so far.
FetchEvent(result, links) ==
    [ kind |-> "fetch_page", cat |-> cat, page |-> page, url |-> page_url,
      result |-> result, links |-> links ]

FetchErrorEvent ==
    [ kind |-> "fetch_page", cat |-> cat, page |-> page, url |-> page_url,
      result |-> "error", links |-> <<>>, kept |-> all_rows_dict ]

ProductEvent(result, csv_added, buffer_added) ==
    [ kind |-> "product", cat |-> cat, page |-> page, i |-> idx,
      n |-> Len(product_links), url |-> product_links[idx],
      result |-> result, csv_added |-> csv_added,
      buffer_added |-> buffer_added ]

SleepEvent(sec) == [kind |-> "sleep", sec |-> sec]

\* Leaving the page loop of the current catalog, by `break` or because the
\* range is exhausted: the next catalog, or the code after the loops.
NextCatalog ==
    IF cat < Len(catalog_urls)
    THEN /\ cat' = cat + 1
         /\ page' = 1
         /\ pc' = "fetch_page"
    ELSE /\ pc' = "final_flush"
         /\ UNCHANGED <<cat, page>>

\* The next iteration of the page loop.
NextPage ==
    IF page < LastPage
    THEN /\ page' = page + 1
         /\ pc' = "fetch_page"
         /\ UNCHANGED cat
    ELSE NextCatalog

(***************************************************************************)
(* The page loop (source lines 299-316)                                    *)
(***************************************************************************)
FetchPageErrorContinue ==
    /\ pc = "fetch_page"
    /\ CanFault
    /\ faults' = faults + 1
    /\ events' = Append(events, FetchErrorEvent)
    /\ NextPage
    /\ UNCHANGED <<site, batch_size, product_links, idx, all_rows_dict,
                   buffer_rows, total_written, sheet_batches, csv, call, ret>>

\* fetch(page_url) raises: log, break.
FetchPageError ==
    /\ pc = "fetch_page"
    /\ CanFault
    /\ faults' = faults + 1
    /\ events' = Append(events, FetchErrorEvent)
    /\ NextCatalog
    /\ UNCHANGED <<site, batch_size, product_links, idx, all_rows_dict,
                   buffer_rows, total_written, sheet_batches, csv, call, ret>>

FetchPageEmptyContinue ==
    /\ pc = "fetch_page"
    /\ LET links == extract_product_links_from_catalog(
                        Served(site, page), catalog_urls[cat])
       IN  /\ links = <<>>
           /\ product_links' = links
           /\ events' = Append(events, FetchEvent("empty", links))
    /\ NextPage
    /\ UNCHANGED <<site, batch_size, idx, all_rows_dict, buffer_rows,
                   total_written, sheet_batches, csv, faults, call, ret>>

\* The page is fetched and holds no product link: log, break.
FetchPageEmpty ==
    /\ pc = "fetch_page"
    /\ LET links == extract_product_links_from_catalog(
                        Served(site, page), catalog_urls[cat])
       IN  /\ links = <<>>
           /\ product_links' = links
           /\ events' = Append(events, FetchEvent("empty", links))
    /\ NextCatalog
    /\ UNCHANGED <<site, batch_size, idx, all_rows_dict, buffer_rows,
                   total_written, sheet_batches, csv, faults, call, ret>>

\* The page is fetched and holds product links: enter the product loop.
FetchPageLinks ==
    /\ pc = "fetch_page"
    /\ LET links == extract_product_links_from_catalog(
                        Served(site, page), catalog_urls[cat])
       IN  /\ links # <<>>
           /\ product_links' = links
           /\ events' = Append(events, FetchEvent("links", links))
    /\ idx' = 1
    /\ pc' = "products"
    /\ UNCHANGED <<site, batch_size, cat, page, all_rows_dict, buffer_rows,
                   total_written, sheet_batches, csv, faults, call, ret>>

(***************************************************************************)
(* The product loop (source lines 318-355)                                 *)
(***************************************************************************)
\* What follows the try block of one product: the log entry of the attempt,
\* time.sleep(SLEEP_BETWEEN_REQUESTS_SEC), and then the next link, or after
\* the last link time.sleep(SLEEP_BETWEEN_PAGES_SEC) and the next page.
AfterProduct(ev) ==
    IF idx < Len(product_links)
    THEN /\ events' = events \o <<ev, SleepEvent(SLEEP_BETWEEN_REQUESTS_SEC)>>
         /\ idx' = idx + 1
         /\ UNCHANGED <<pc, cat, page>>
    ELSE /\ events' = events \o <<ev, SleepEvent(SLEEP_BETWEEN_REQUESTS_SEC),
                                  SleepEvent(SLEEP_BETWEEN_PAGES_SEC)>>
         /\ NextPage
         /\ UNCHANGED idx

ProductParseErrorKeepsRow ==
    /\ pc = "products"
    /\ CanFault
    /\ faults' = faults + 1
    /\ LET row == [ url |-> product_links[idx], name |-> "", category |-> "",
                    color |-> "", size |-> <<>>, stock |-> StockNone ]
       IN  /\ all_rows_dict' = Append(all_rows_dict, row)
           /\ buffer_rows' = Append(buffer_rows, RowList(row))
    /\ AfterProduct(ProductEvent("parse_error", 1, 1))
    /\ UNCHANGED <<site, batch_size, product_links, total_written,
                   sheet_batches, csv, call, ret>>

\* parse_product_page raises (its fetch, or anything after it): the except
\* clause logs it; no row was built.
ProductParseError ==
    /\ pc = "products"
    /\ CanFault
    /\ faults' = faults + 1
    /\ AfterProduct(ProductEvent("parse_error", 0, 0))
    /\ UNCHANGED <<site, batch_size, product_links, all_rows_dict,
                   buffer_rows, total_written, sheet_batches, csv, call, ret>>

\* The product is parsed and flattened; flush_buffer, when the batch is
\* full, succeeds.
ProductDone ==
    /\ pc = "products"
    /\ LET prod == SiteProducts[product_links[idx]]
           rows == FlattenRows(prod)
           buf  == buffer_rows \o RowLists(rows)
       IN  /\ all_rows_dict' = all_rows_dict \o rows
           /\ IF Len(buf) >= batch_size /\ buf # <<>>
              THEN /\ sheet_batches' = Append(sheet_batches, buf)
                   /\ total_written' = total_written + Len(buf)
                   /\ buffer_rows' = <<>>
              ELSE /\ buffer_rows' = buf
                   /\ UNCHANGED <<sheet_batches, total_written>>
           /\ AfterProduct(ProductEvent("ok", Len(rows), Len(rows)))
    /\ UNCHANGED <<site, batch_size, product_links, csv, faults, call, ret>>

ProductAppendErrorDropsBatch ==
    /\ pc = "products"
    /\ CanFault
    /\ faults' = faults + 1
    /\ LET prod == SiteProducts[product_links[idx]]
           rows == FlattenRows(prod)
           buf  == buffer_rows \o RowLists(rows)
       IN  /\ Len(buf) >= batch_size /\ buf # <<>>
           /\ all_rows_dict' = all_rows_dict \o rows
           /\ buffer_rows' = <<>>
           /\ AfterProduct(ProductEvent("append_error", Len(rows), Len(rows)))
    /\ UNCHANGED <<site, batch_size, product_links, total_written,
                   sheet_batches, csv, call, ret>>

\* The product is parsed and flattened, the batch is full and
\* sheet_append_rows raises inside flush_buffer: the except clause of the
\* product logs it; buffer_rows keeps the batch.
ProductAppendError ==
    /\ pc = "products"
    /\ CanFault
    /\ faults' = faults + 1
    /\ LET prod == SiteProducts[product_links[idx]]
           rows == FlattenRows(prod)
           buf  == buffer_rows \o RowLists(rows)
       IN  /\ Len(buf) >= batch_size /\ buf # <<>>
           /\ all_rows_dict' = all_rows_dict \o rows
           /\ buffer_rows' = buf
           /\ AfterProduct(ProductEvent("append_error", Len(rows), Len(rows)))
    /\ UNCHANGED <<site, batch_size, product_links, total_written,
                   sheet_batches, csv, call, ret>>

(***************************************************************************)
(* After the loops (source lines 357-359)                                  *)
(***************************************************************************)
\* flush_buffer() succeeds (or has nothing to write); output.csv is saved.
FinalFlush ==
    /\ pc = "final_flush"
    /\ IF buffer_rows # <<>>
       THEN /\ sheet_batches' = Append(sheet_batches, buffer_rows)
            /\ total_written' = total_written + Len(buffer_rows)
            /\ buffer_rows' = <<>>
       ELSE UNCHANGED <<sheet_batches, total_written, buffer_rows>>
    /\ csv' = [written |-> TRUE, rows |-> all_rows_dict]
    /\ pc' = "done"
    /\ UNCHANGED <<site, batch_size, cat, page, product_links, idx,
                   all_rows_dict, events, faults, call, ret>>

\* sheet_append_rows raises in the final flush_buffer(): main ends with the
\* exception, and output.csv is not written.
FinalFlushError ==
    /\ pc = "final_flush"
    /\ buffer_rows # <<>>
    /\ CanFault
    /\ faults' = faults + 1
    /\ pc' = "aborted"
    /\ UNCHANGED <<site, batch_size, cat, page, product_links, idx,
                   all_rows_dict, buffer_rows, total_written, sheet_batches,
                   csv, events, call, ret>>

Next ==
    \/ FetchPageError
    \/ FetchPageEmpty
    \/ FetchPageLinks
    \/ ProductParseError
    \/ ProductDone
    \/ ProductAppendError
    \/ FinalFlush
    \/ FinalFlushError

Spec == Init /\ [][Next]_vars

\* main() is one sequential thread: it always takes its next step.
FairSpec == Spec /\ WF_vars(Next)

(***************************************************************************)
(* The pure functions on their own: one call, its arguments drawn from     *)
(* bounded sets, and then its result.                                      *)
(***************************************************************************)
RootSymbols == {"c", "/", "?"}

RootsUnderTest ==
    (SeqsUpTo(RootSymbols, MaxRootLen) \ {<<>>}) \cup {RootA, RootB}

PageArgs == 1..MaxPageArg \cup {MAX_PAGES_PER_CATALOG}

UrlCalls ==
    {[fn |-> "catalog_page_url", catalog_url |-> r, page |-> n] :
        r \in RootsUnderTest, n \in PageArgs}

StockWords == {"net", "Net", "v", "nalichii", "sold", "out", "in", "stock"}

\* Raw element texts: size tokens in both cases, with stray white space,
\* with a decimal comma, with a region prefix, and texts SIZE_RE rejects.
SizeTexts ==
    { <<"X", "L">>, <<"x", "l">>, <<" ", "M", " ">>, <<"4", "2", ",", "5">>,
      <<"E", "U", " ", "4", "2">>, <<"e", "u", "\t", " ", "4", "2">>,
      <<"X", "X", "X", "X", "L">>, <<"S", "i", "z", "e", ":", " ", "M">>,
      <<"1", "2", "3", "4", "5", "6", "7", "8", "9", "0", "1">> }

DocsUnderTest ==
    {[DocP1 EXCEPT !.text = t] : t \in SeqsUpTo(StockWords, MaxWords)}
    \cup {[DocP2 EXCEPT !.options = o, !.elements = e] :
             o \in SeqsUpTo(SizeTexts, MaxOptions),
             e \in SeqsUpTo(SizeTexts, MaxElements)}

ProductCalls ==
    {[fn |-> "parse_product_page", url |-> urljoin(RootA, HrefP1), doc |-> d] :
        d \in DocsUnderTest}

InitPure ==
    /\ call \in UrlCalls \cup ProductCalls
    /\ ret = NoRet
    /\ pc = "idle"
    /\ site = [pages |-> <<>>, endless |-> FALSE]
    /\ batch_size = DEFAULT_BATCH_SIZE
    /\ cat = 1
    /\ page = 1
    /\ product_links = <<>>
    /\ idx = 0
    /\ all_rows_dict = <<>>
    /\ buffer_rows = <<>>
    /\ total_written = 0
    /\ sheet_batches = <<>>
    /\ csv = [written |-> FALSE, rows |-> <<>>]
    /\ events = <<>>
    /\ faults = 0

CallCatalogPageUrl ==
    /\ call.fn = "catalog_page_url"
    /\ ret = NoRet
    /\ ret' = [stage |-> "url",
               value |-> catalog_page_url(call.catalog_url, call.page)]
    /\ UNCHANGED <<call, mainVars>>

CallParseProductPage ==
    /\ call.fn = "parse_product_page"
    /\ ret = NoRet
    /\ ret' = [stage |-> "parsed",
               prod |-> parse_product_page(call.url, call.doc)]
    /\ UNCHANGED <<call, mainVars>>

\* The flattening of main (source lines 323-345) applied to the record.
FlattenProduct ==
    /\ ret.stage = "parsed"
    /\ ret' = [stage |-> "flattened", prod |-> ret.prod,
               rows |-> FlattenRows(ret.prod)]
    /\ UNCHANGED <<call, mainVars>>

NextPure ==
    \/ CallCatalogPageUrl
    \/ CallParseProductPage
    \/ FlattenProduct

SpecPure == InitPure /\ [][NextPure]_vars

(***************************************************************************)
(* Observations on the log                                                 *)
(***************************************************************************)
IsFetch(e) == e.kind = "fetch_page"

IsProduct(e) == e.kind = "product"

\* The listing-page fetches and the product attempts of catalog c, in order.
FetchesOf(c) == SelectSeq(events, LAMBDA e : IsFetch(e) /\ e.cat = c)

ProductsOf(c) == SelectSeq(events, LAMBDA e : IsProduct(e) /\ e.cat = c)

FetchLog == SelectSeq(events, IsFetch)

ProductLog == SelectSeq(events, IsProduct)

\* Both loops of main are over.
LoopsDone == pc \in {"final_flush", "done", "aborted"}

\* The walk of catalog c is over.
CatalogDone(c) == pc # "idle" /\ (cat > c \/ LoopsDone)

RequestDelay == SleepEvent(SLEEP_BETWEEN_REQUESTS_SEC)

PageDelay == SleepEvent(SLEEP_BETWEEN_PAGES_SEC)

(***************************************************************************)
(* C1.  Within one catalog walk no product URL is passed to                *)
(* parse_product_page more than once, even when two listing pages of the  *)
(* catalog both link to it.  The walker keeps no set of the URLs it has    *)
(* seen, so this fails on a site whose pages overlap.                      *)
(***************************************************************************)
C1_NoUrlAssembledTwice ==
    \A c \in DOMAIN catalog_urls :
        LET P == ProductsOf(c)
        IN  Cardinality({P[k].url : k \in DOMAIN P}) = Len(P)

(***************************************************************************)
(* C2.  In every catalog the pages fetched are 1, 2, ..., N in order; a    *)
(* page on which the link collector returns nothing is the last one        *)
(* fetched, and products are attempted only on the pages before it.  A     *)
(* catalog whose page 1 has no links ends after one fetch and no product;  *)
(* one whose page 1 has 2 links and page 2 none ends after 2 fetches and   *)
(* 2 product attempts.                                                     *)
(***************************************************************************)
C2_WalkStopsAtFirstEmptyPage ==
    \A c \in DOMAIN catalog_urls :
        LET F == FetchesOf(c)
            P == ProductsOf(c)
        IN  /\ \A n \in DOMAIN F :
                  /\ F[n].page = n
                  /\ F[n].url = catalog_page_url(catalog_urls[c], n)
                  /\ F[n].result = "empty" => n = Len(F)
            /\ (F # <<>> /\ Last(F).result = "empty") =>
                  \A j \in DOMAIN P : P[j].page < Len(F)
            /\ \A j \in DOMAIN P :
                  /\ P[j].page \in DOMAIN F
                  /\ F[P[j].page].result = "links"
            /\ (CatalogDone(c) /\ F # <<>> /\ F[1].result = "empty") =>
                  /\ Len(F) = 1
                  /\ P = <<>>
            /\ (CatalogDone(c) /\ Len(F) >= 2 /\ F[1].result = "links"
                   /\ Len(F[1].links) = 2 /\ F[2].result = "empty") =>
                  /\ Len(F) = 2
                  /\ Len(P) = 2
                  /\ \A j \in DOMAIN P : P[j].url = F[1].links[j]

\* A finished run whose first catalog had 2 links on page 1 and none on
\* page 2: 2 page fetches, 2 product attempts.
C2_Witness ==
    /\ pc = "done"
    /\ LET F == FetchesOf(1)
       IN  /\ Len(F) = 2
           /\ Len(F[1].links) = 2
           /\ F[2].result = "empty"
           /\ Len(ProductsOf(1)) = 2

(***************************************************************************)
(* C3, as claimed.  A product whose try block raised, for any reason,      *)
(* added no row to all_rows_dict and none to buffer_rows.                  *)
(***************************************************************************)
C3_AnyFailureAddsNoRows ==
    \A k \in DOMAIN events :
        (IsProduct(events[k]) /\ events[k].result # "ok") =>
            /\ events[k].csv_added = 0
            /\ events[k].buffer_added = 0

(***************************************************************************)
(* C3, amended.  A product whose parse_product_page raised added no row    *)
(* to either list; a product whose rows were built and whose flush_buffer  *)
(* then raised left its rows in both lists.  Either way the request delay  *)
(* follows and the walk goes on: to the next link of the page, or after    *)
(* the last link to the page delay and the next page of the catalog.       *)
(***************************************************************************)
C3_FailedProductSkippedWalkContinues ==
    \A k \in DOMAIN events :
        LET e == events[k]
        IN  (IsProduct(e) /\ e.result # "ok") =>
              /\ e.result = "parse_error" =>
                    e.csv_added = 0 /\ e.buffer_added = 0
              /\ e.result = "append_error" =>
                    e.csv_added >= 1 /\ e.buffer_added = e.csv_added
              /\ k < Len(events) /\ events[k + 1] = RequestDelay
              /\ e.i < e.n =>
                    IF k + 2 <= Len(events)
                    THEN /\ IsProduct(events[k + 2])
                         /\ events[k + 2].cat = e.cat
                         /\ events[k + 2].page = e.page
                         /\ events[k + 2].i = e.i + 1
                    ELSE /\ pc = "products"
                         /\ cat = e.cat /\ page = e.page /\ idx = e.i + 1
              /\ (e.i = e.n /\ e.page < LastPage) =>
                    /\ k + 2 <= Len(events) /\ events[k + 2] = PageDelay
                    /\ IF k + 3 <= Len(events)
                       THEN /\ IsFetch(events[k + 3])
                            /\ events[k + 3].cat = e.cat
                            /\ events[k + 3].page = e.page + 1
                       ELSE /\ pc = "fetch_page"
                            /\ cat = e.cat /\ page = e.page + 1

\* The first of two links failed to parse and the second was attempted;
\* elsewhere in the run a sheet append raised.
C3_Witness ==
    /\ \E k \in DOMAIN events :
          /\ IsProduct(events[k])
          /\ events[k].result = "parse_error"
          /\ events[k].i < events[k].n
          /\ k + 2 <= Len(events)
          /\ IsProduct(events[k + 2])
    /\ \E k \in DOMAIN events :
          IsProduct(events[k]) /\ events[k].result = "append_error"

(***************************************************************************)
(* C4.  After a listing page fails to load, no further page of that        *)
(* catalog is fetched, the rows produced until then stay in all_rows_dict, *)
(* and the next fetch is page 1 of the next catalog; when the loops are    *)
(* over every catalog of the list has had its page 1 fetched.              *)
(***************************************************************************)
C4_PageErrorEndsOnlyItsCatalog ==
    LET F == FetchLog
    IN  /\ \A j \in DOMAIN F :
              /\ j < Len(F) => F[j + 1].cat >= F[j].cat
              /\ F[j].result = "error" =>
                    /\ j < Len(F) =>
                          F[j + 1].cat = F[j].cat + 1 /\ F[j + 1].page = 1
                    /\ Len(F[j].kept) <= Len(all_rows_dict)
                    /\ SubSeq(all_rows_dict, 1, Len(F[j].kept)) = F[j].kept
                    /\ (j = Len(F) /\ F[j].cat < Len(catalog_urls)) =>
                          /\ pc = "fetch_page"
                          /\ cat = F[j].cat + 1 /\ page = 1
        /\ LoopsDone =>
              \A c \in DOMAIN catalog_urls :
                  \E j \in DOMAIN F : F[j].cat = c /\ F[j].page = 1

\* Page 2 of the first catalog failed after rows had been produced, and the
\* second catalog was then walked and produced rows of its own.
C4_Witness ==
    /\ pc = "done"
    /\ \E k \in DOMAIN events :
          /\ IsFetch(events[k])
          /\ events[k].result = "error"
          /\ events[k].cat = 1
          /\ events[k].kept # <<>>
    /\ ProductsOf(2) # <<>>

(***************************************************************************)
(* C5.  The sizes of a product record hold no token twice, also after      *)
(* normalisation, and flattening gives max(1, len(sizes)) rows: one per    *)
(* size, in the order of sizes, every other field copied from the record,  *)
(* or a single row with an empty size.                                     *)
(***************************************************************************)
C5_SizesDistinctRowsPerSize ==
    /\ ret.stage \in {"parsed", "flattened"} =>
          LET sizes == ret.prod.sizes
          IN  \A i, j \in DOMAIN sizes :
                  i < j => /\ sizes[i] # sizes[j]
                           /\ NormalizeSize(sizes[i]) # NormalizeSize(sizes[j])
    /\ ret.stage = "flattened" =>
          LET prod == ret.prod
              rows == ret.rows
              k    == Len(prod.sizes)
          IN  /\ Len(rows) = IF k > 1 THEN k ELSE 1
              /\ \A i \in DOMAIN rows :
                    /\ rows[i].url = prod.url
                    /\ rows[i].name = prod.name
                    /\ rows[i].category = prod.category
                    /\ rows[i].color = prod.color
                    /\ rows[i].stock = prod.stock
                    /\ rows[i].size = IF k = 0 THEN <<>> ELSE prod.sizes[i]

\* The option "xl" and the elements "XL" and " M ": one size token seen
\* twice, two sizes kept, two rows.
C5_Witness ==
    /\ ret.stage = "flattened"
    /\ call.doc.options = << <<"x", "l">> >>
    /\ call.doc.elements = << <<"X", "L">>, <<" ", "M", " ">> >>
    /\ ret.prod.sizes = << <<"X", "L">>, <<"M">> >>
    /\ Len(ret.rows) = 2

(***************************************************************************)
(* C6, as claimed.  The stock field of every record and row is one of      *)
(* "in_stock", "out_of_stock", "unknown".                                  *)
(***************************************************************************)
C6_StockIsEnglishToken ==
    /\ ret.stage \in {"parsed", "flattened"} =>
          ret.prod.stock \in {"in_stock", "out_of_stock", "unknown"}
    /\ ret.stage = "flattened" =>
          \A i \in DOMAIN ret.rows :
              ret.rows[i].stock \in {"in_stock", "out_of_stock", "unknown"}

\* The page text, lowercased, holds the two words one after the other.
HasPair(text, w1, w2) ==
    \E i \in 1..(Len(text) - 1) :
        LowerWord(text[i]) = w1 /\ LowerWord(text[i + 1]) = w2

SaysOutOfStock(text) ==
    \/ HasPair(text, "sold", "out")
    \/ \E i \in 1..(Len(text) - 2) :
          /\ LowerWord(text[i]) = "net"
          /\ LowerWord(text[i + 1]) = "v"
          /\ LowerWord(text[i + 2]) = "nalichii"

SaysInStock(text) == HasPair(text, "v", "nalichii") \/ HasPair(text, "in", "stock")

(***************************************************************************)
(* C6, amended.  The stock field of every record and row is one of the     *)
(* three values the source returns: the out-of-stock label when the        *)
(* lowercased page text holds an out-of-stock phrase (tested first),       *)
(* otherwise the in-stock label when it holds an in-stock phrase,          *)
(* otherwise the empty string.                                             *)
(***************************************************************************)
C6_StockIsOneOfThreeLabels ==
    /\ ret.stage \in {"parsed", "flattened"} =>
          /\ ret.prod.stock \in {StockOut, StockIn, StockNone}
          /\ SaysOutOfStock(call.doc.text) => ret.prod.stock = StockOut
          /\ (~SaysOutOfStock(call.doc.text) /\ SaysInStock(call.doc.text)) =>
                ret.prod.stock = StockIn
          /\ (~SaysOutOfStock(call.doc.text) /\ ~SaysInStock(call.doc.text)) =>
                ret.prod.stock = StockNone
    /\ ret.stage = "flattened" =>
          \A i \in DOMAIN ret.rows : ret.rows[i].stock = ret.prod.stock

\* "Net v nalichii": the text holds the in-stock phrase too, and the
\* out-of-stock label wins.
C6_Witness ==
    /\ ret.stage = "flattened"
    /\ call.doc.text = <<"Net", "v", "nalichii">>
    /\ ret.prod.stock = StockOut
    /\ ret.rows[1].stock = StockOut

(***************************************************************************)
(* C7.  catalog_page_url(root, 1) is root; for a page N > 1 it is root,    *)
(* then "&" if root holds a "?" and "?" otherwise, then "page=" and the    *)
(* decimal digits of N.                                                    *)
(***************************************************************************)
DigitValue(d) == CHOOSE v \in 0..9 : DigitChars[v + 1] = d

RECURSIVE DecimalValue(_)
DecimalValue(ds) ==
    IF Len(ds) = 1 THEN DigitValue(ds[1])
    ELSE 10 * DecimalValue(SubSeq(ds, 1, Len(ds) - 1)) + DigitValue(Last(ds))

C7_PageUrlConstruction ==
    ret.stage = "url" =>
        LET root == call.catalog_url
            n    == call.page
            url  == ret.value
            k    == Len(root)
        IN  /\ n = 1 => url = root
            /\ n > 1 =>
                  /\ Len(url) >= k + 7
                  /\ SubSeq(url, 1, k) = root
                  /\ url[k + 1] = IF "?" \in Range(root) THEN "&" ELSE "?"
                  /\ SubSeq(url, k + 2, k + 6) = <<"p", "a", "g", "e", "=">>
                  /\ IsDigits(SubSeq(url, k + 7, Len(url)))
                  /\ url[k + 7] # "0"
                  /\ DecimalValue(SubSeq(url, k + 7, Len(url))) = n
            /\ (root = RootA /\ n = 3) =>
                  url = RootA \o <<"?", "p", "a", "g", "e", "=", "3">>
            /\ (root = RootB /\ n = 2) =>
                  url = RootB \o <<"&", "p", "a", "g", "e", "=", "2">>

\* https://x.com/cat?x=1, page 2.
C7_Witness ==
    /\ ret.stage = "url"
    /\ call.catalog_url = RootB
    /\ call.page = 2
    /\ ret.value = RootB \o <<"&", "p", "a", "g", "e", "=", "2">>

(***************************************************************************)
(* C8.  The request delay follows every product attempt, and the page      *)
(* delay follows every listing-page fetch, however the fetch ended: each   *)
(* page fetch but the first of the run comes right after a page delay,     *)
(* and the loops end on one.  The two `break`s of the page loop skip the   *)
(* page delay, so this fails.                                              *)
(***************************************************************************)
C8_DelaysAreUnconditional ==
    /\ \A k \in DOMAIN events :
          /\ IsProduct(events[k]) =>
                k < Len(events) /\ events[k + 1] = RequestDelay
          /\ (IsFetch(events[k]) /\ k > 1) => events[k - 1] = PageDelay
    /\ (LoopsDone /\ events # <<>>) => Last(events) = PageDelay

(***************************************************************************)
(* C9.  A catalog has at most MAX_PAGES_PER_CATALOG page fetches, their    *)
(* page indices 1, 2, 3, ... in steps of one; the loops come to an end,    *)
(* also on a site whose every page has links, and the run terminates.      *)
(***************************************************************************)
PageFetchesBounded ==
    \A c \in DOMAIN catalog_urls :
        LET F == FetchesOf(c)
        IN  /\ Len(F) <= MAX_PAGES_PER_CATALOG
            /\ \A n \in DOMAIN F : F[n].page = n

C9_WalkBoundedAndTerminates ==
    /\ []PageFetchesBounded
    /\ <>(LoopsDone /\ pc \in {"done", "aborted"})

\* The endless site: each catalog stopped after exactly 200 page fetches,
\* all of them with links.
C9_Witness ==
    /\ pc = "done"
    /\ site.endless
    /\ \A c \in DOMAIN catalog_urls :
          LET F == FetchesOf(c)
          IN  /\ Len(F) = MAX_PAGES_PER_CATALOG
              /\ Last(F).result = "links"
              /\ Last(F).page = MAX_PAGES_PER_CATALOG

(***************************************************************************)
(* C10.  The batches the sheet accepted, concatenated, followed by         *)
(* buffer_rows, are the rows of all_rows_dict in order: an append that     *)
(* raised lost and doubled nothing.  Once the final flush has succeeded    *)
(* the sheet holds exactly the rows written to output.csv.                 *)
(***************************************************************************)
C10_SheetMatchesCsv ==
    /\ Concat(sheet_batches) \o buffer_rows = RowLists(all_rows_dict)
    /\ total_written = Len(Concat(sheet_batches))
    /\ \A b \in DOMAIN sheet_batches : sheet_batches[b] # <<>>
    /\ pc = "done" =>
          /\ buffer_rows = <<>>
          /\ csv = [written |-> TRUE, rows |-> all_rows_dict]
          /\ Concat(sheet_batches) = RowLists(csv.rows)
    /\ pc # "done" => ~csv.written

\* A finished run in which a sheet append raised and later appends took
\* the rows it had left in the buffer.
C10_Witness ==
    /\ pc = "done"
    /\ \E k \in DOMAIN events :
          IsProduct(events[k]) /\ events[k].result = "append_error"
    /\ Len(sheet_batches) >= 2
    /\ Len(all_rows_dict) >= 3

====
